---------------------------- MODULE Spec2Model ----------------------------
(***************************************************************************)
(* The manual PCA pipeline of notebooks/04_regre_pca.ipynb (Steps 2 to 7), *)
(* statement by statement, on arbitrary small sample matrices: run top to  *)
(* bottom (Spec), with its cells run again in any order (SpecRerun), and   *)
(* beside the scikit-learn cell of the same notebook (SpecNotebook).       *)
(*                                                                         *)
(* Numbers.  A float64 is modelled by an exact number (a + b*sqrt(2))/d,   *)
(* written <<a, b, d>> in lowest terms with d >= 0: the fractions, and the *)
(* components of unit vectors at 45 degrees.  d = 0 carries the IEEE       *)
(* specials the pipeline can produce: <<1,0,0>> is +inf, <<-1,0,0>> is     *)
(* -inf, <<0,0,0>> is nan.  Rounding is not modelled, so "within           *)
(* tolerance" reads as equality.                                           *)
(*                                                                         *)
(* Arrays.  A numpy array is [shape |-> <<...>>, a |-> contents]:          *)
(*   shape <<>>     0-d array, a is one number                             *)
(*   shape <<m>>    1-d array, a is a tuple of m numbers                   *)
(*   shape <<n,m>>  2-d array, a is a tuple of n rows of m numbers         *)
(* A name no cell has bound yet holds Unset.  Indices are 1-based here,    *)
(* 0-based in the notebook.                                                *)
(*                                                                         *)
(* Library routines.  np.linalg.eig and np.argsort are functions: called   *)
(* again with the argument of their last call they return what they        *)
(* returned then (eig_seen, argsort_seen).                                 *)
(*                                                                         *)
(* History.  launched is the cell the kernel was last asked to run;        *)
(* writer names, for mean, pc1 and projected, the pipeline that bound the  *)
(* name last; first_sorted and first_run keep what the first completed     *)
(* sort cell and the first completed run of Step 7 left behind; runs       *)
(* counts the completed runs of Step 7, up to MaxRuns.                     *)
(***************************************************************************)
EXTENDS Integers, Sequences, FiniteSets, TLC

VARIABLES data, mean, data_centered, cov_matrix, eigenvalues, eigenvectors,
          idx, pc1, projected, projected_2D, pca, projected_back, pc, err,
          eig_seen, argsort_seen, launched, writer, first_sorted, first_run,
          runs

vars == <<data, mean, data_centered, cov_matrix, eigenvalues, eigenvectors,
          idx, pc1, projected, projected_2D, pca, projected_back, pc, err,
          eig_seen, argsort_seen, launched, writer, first_sorted, first_run,
          runs>>

(***************************************************************************)
(* Bounds and program constants                                            *)
(***************************************************************************)
\* largest number of samples (rows) the model draws; the notebook uses 100
MaxN == 4

\* the completed runs of Step 7 are counted up to this number
MaxRuns == 2

\* the notebook's data has two feature columns (x, y); the model draws
\* matrices with 0..n_features columns
n_features == 2

\* the pipeline keeps exactly one component: column 0 of the sorted basis
n_components == 1

(***************************************************************************)
(* float64 arithmetic                                                      *)
(***************************************************************************)
Abs(x) == IF x < 0 THEN -x ELSE x

Sgn(x) == IF x < 0 THEN -1 ELSE IF x > 0 THEN 1 ELSE 0

RECURSIVE GCD(_, _)
GCD(a, b) == IF b = 0 THEN a ELSE GCD(b, a % b)

\* the sign of a + b*sqrt(2)
SgnSurd(a, b) ==
    IF a >= 0 /\ b >= 0 THEN (IF a = 0 /\ b = 0 THEN 0 ELSE 1)
    ELSE IF a <= 0 /\ b <= 0 THEN -1
    ELSE IF a > 0 THEN (IF a * a > 2 * b * b THEN 1 ELSE -1)
    ELSE (IF 2 * b * b > a * a THEN 1 ELSE -1)

\* (a + b*sqrt(2)) / d in lowest terms
Surd(a, b, d) ==
    IF d = 0 THEN <<SgnSurd(a, b), 0, 0>>
    ELSE LET g == GCD(GCD(Abs(a), Abs(b)), Abs(d))
             s == Sgn(d)
         IN  <<s * Sgn(a) * (Abs(a) \div g), s * Sgn(b) * (Abs(b) \div g),
               Abs(d) \div g>>

\* the fraction n / d
Norm(n, d) == Surd(n, 0, d)

Flt(i) == <<i, 0, 1>>

Zero == Flt(0)

One == Flt(1)

IsFinite(x) == x[3] # 0

\* (sums and products cancel common factors first, to keep the intermediate
\* integers small)
FAdd(x, y) ==
    IF x[3] = 0 \/ y[3] = 0
    THEN Surd(x[1] * y[3] + y[1] * x[3], x[2] * y[3] + y[2] * x[3], x[3] * y[3])
    ELSE LET g == GCD(x[3], y[3])
         IN  Surd(x[1] * (y[3] \div g) + y[1] * (x[3] \div g),
                  x[2] * (y[3] \div g) + y[2] * (x[3] \div g),
                  (x[3] \div g) * y[3])

FNeg(x) == <<-x[1], -x[2], x[3]>>

FSub(x, y) == FAdd(x, FNeg(y))

FMul(x, y) ==
    IF x[3] = 0 \/ y[3] = 0
    THEN Surd(x[1] * y[1] + 2 * x[2] * y[2], x[1] * y[2] + x[2] * y[1],
              x[3] * y[3])
    ELSE LET g1 == GCD(GCD(Abs(x[1]), Abs(x[2])), y[3])
             g2 == GCD(GCD(Abs(y[1]), Abs(y[2])), x[3])
             xa == Sgn(x[1]) * (Abs(x[1]) \div g1)
             xb == Sgn(x[2]) * (Abs(x[2]) \div g1)
             ya == Sgn(y[1]) * (Abs(y[1]) \div g2)
             yb == Sgn(y[2]) * (Abs(y[2]) \div g2)
         IN  Surd(xa * ya + 2 * xb * yb, xa * yb + xb * ya,
                  (x[3] \div g2) * (y[3] \div g1))

\* 1 / y:  d / (a + b*sqrt(2)) = d * (a - b*sqrt(2)) / (a*a - 2*b*b);
\* 1/0 = inf, 1/inf = 0, 1/nan = nan
Recip(y) ==
    IF y[1] = 0 /\ y[2] = 0 THEN <<Sgn(y[3]), 0, 0>>
    ELSE Surd(y[3] * y[1], -(y[3] * y[2]), y[1] * y[1] - 2 * y[2] * y[2])

\* x / y = x * (1 / y); 0/0 = 0 * inf = nan
FDiv(x, y) == FMul(x, Recip(y))

\* x <= y on finite numbers
FLe(x, y) == LET z == FSub(y, x) IN SgnSurd(z[1], z[2]) >= 0

\* f[1] + ... + f[n]
RECURSIVE FSum(_, _)
FSum(f, n) == IF n = 0 THEN Zero ELSE FAdd(FSum(f, n - 1), f[n])

(***************************************************************************)
(* numpy arrays                                                            *)
(***************************************************************************)
Unset == [shape |-> <<-1>>, a |-> <<>>]

\* the tuple <<f[1], ..., f[n]>> of a function on 1..n, evaluated once
Tup(f) == f \o <<>>

IsSet(A) == A.shape # <<-1>>

Arr0(x) == [shape |-> <<>>, a |-> x]

Arr1(m, f) == [shape |-> <<m>>, a |-> Tup([i \in 1..m |-> f[i]])]

Arr2(n, m, f) ==
    [shape |-> <<n, m>>,
     a |-> Tup([r \in 1..n |-> Tup([c \in 1..m |-> f[r][c]])])]

Ndim(A) == Len(A.shape)

ArrEq(A, B) == A.shape = B.shape /\ A.a = B.a

\* every element of A, as a set
Elems(A) ==
    IF Ndim(A) = 0 THEN {A.a}
    ELSE IF Ndim(A) = 1 THEN {A.a[i] : i \in 1..A.shape[1]}
    ELSE {A.a[r][c] : r \in 1..A.shape[1], c \in 1..A.shape[2]}

\* A.T: reverses the axes; a 0-d or 1-d array is its own transpose
Transpose(A) ==
    IF Ndim(A) < 2 THEN A
    ELSE Arr2(A.shape[2], A.shape[1],
              [c \in 1..A.shape[2] |-> [r \in 1..A.shape[1] |-> A.a[r][c]]])

\* variant: np.mean(A) without axis=0, the mean of all entries, which
\* broadcasts as one value for every column
NpMeanAll(A) ==
    LET n == A.shape[1]
        m == A.shape[2]
        rowsum == Tup([r \in 1..n |-> FSum(A.a[r], m)])
    IN  Arr1(m, [c \in 1..m |-> FDiv(FSum(rowsum, n), Flt(n * m))])

\* np.mean(A, axis=0) of a 2-d array: per-column sum / row count
\* (0/0 = nan when there are no rows)
NpMean0(A) ==
    LET n == A.shape[1]
        m == A.shape[2]
    IN  Arr1(m, [c \in 1..m |->
                   FDiv(FSum([r \in 1..n |-> A.a[r][c]], n), Flt(n))])

\* A - v with the 1-d array v broadcast over the rows of the 2-d array A
SubRows(A, v) ==
    Arr2(A.shape[1], A.shape[2],
         [r \in 1..A.shape[1] |->
            [c \in 1..A.shape[2] |-> FSub(A.a[r][c], v.a[c])]])


\* variant: the second operand of the product is read one observation
\* late (index r + 1, wrapping round)
NpCovLagged(m) ==
    LET nv   == m.shape[1]
        nobs == m.shape[2]
        avg  == Tup([i \in 1..nv |-> FDiv(FSum(m.a[i], nobs), Flt(nobs))])
        fact == IF nobs - 1 <= 0 THEN 0 ELSE nobs - 1
        X    == Arr2(nv, nobs, [i \in 1..nv |-> [r \in 1..nobs |->
                                  FSub(m.a[i][r], avg[i])]]).a
        dot  == Arr2(nv, nv, [i \in 1..nv |-> [j \in 1..nv |->
                   FSum([r \in 1..nobs |->
                           FMul(X[i][r], X[j][(r % nobs) + 1])], nobs)]]).a
        scale == FDiv(One, Flt(fact))
        c    == [i \in 1..nv |-> [j \in 1..nv |-> FMul(dot[i][j], scale)]]
    IN  IF nv = 0 THEN Arr2(0, 0, <<>>)
        ELSE IF nv = 1 THEN Arr0(c[1][1])
        ELSE Arr2(nv, nv, c)

\* variant: ddof = 0, the population covariance (divides by n)
NpCovBiased(m) ==
    LET nv   == m.shape[1]
        nobs == m.shape[2]
        avg  == Tup([i \in 1..nv |-> FDiv(FSum(m.a[i], nobs), Flt(nobs))])
        fact == IF nobs <= 0 THEN 0 ELSE nobs
        X    == Arr2(nv, nobs, [i \in 1..nv |-> [r \in 1..nobs |->
                                  FSub(m.a[i][r], avg[i])]]).a
        dot  == Arr2(nv, nv, [i \in 1..nv |-> [j \in 1..nv |->
                   FSum([r \in 1..nobs |-> FMul(X[i][r], X[j][r])], nobs)]]).a
        scale == FDiv(One, Flt(fact))
        c    == [i \in 1..nv |-> [j \in 1..nv |-> FMul(dot[i][j], scale)]]
    IN  IF nv = 0 THEN Arr2(0, 0, <<>>)
        ELSE IF nv = 1 THEN Arr0(c[1][1])
        ELSE Arr2(nv, nv, c)

\* np.cov(m): the rows of the 2-d array m are the variables, its columns the
\* observations; ddof = 1.  Follows numpy's own steps: early return for no
\* variables, fact = max(n - 1, 0), subtract the row averages, X . X^T,
\* scale by 1/fact, squeeze.
NpCov(m) ==
    LET nv   == m.shape[1]
        nobs == m.shape[2]
        avg  == Tup([i \in 1..nv |-> FDiv(FSum(m.a[i], nobs), Flt(nobs))])
        fact == IF nobs - 1 <= 0 THEN 0 ELSE nobs - 1
        X    == Arr2(nv, nobs, [i \in 1..nv |-> [r \in 1..nobs |->
                                  FSub(m.a[i][r], avg[i])]]).a
        dot  == Arr2(nv, nv, [i \in 1..nv |-> [j \in 1..nv |->
                   FSum([r \in 1..nobs |-> FMul(X[i][r], X[j][r])], nobs)]]).a
        scale == FDiv(One, Flt(fact))
        c    == [i \in 1..nv |-> [j \in 1..nv |-> FMul(dot[i][j], scale)]]
    IN  IF nv = 0 THEN Arr2(0, 0, <<>>)
        ELSE IF nv = 1 THEN Arr0(c[1][1])
        ELSE Arr2(nv, nv, c)

(***************************************************************************)
(* np.linalg.eig, by its contract: w[i] is an eigenvalue and column        *)
(* v[:, i] a unit-length eigenvector for it; the order of the eigenvalues, *)
(* the sign of each vector and the choice of an orthonormal basis inside a *)
(* repeated eigenvalue's eigenspace are the routine's own.  Unit vectors   *)
(* are drawn from the exactly representable directions below.              *)
(***************************************************************************)
Comps ==
    {Flt(0), Flt(1), Flt(-1), Norm(3, 5), Norm(-3, 5), Norm(4, 5), Norm(-4, 5),
     Surd(0, 1, 2), Surd(0, -1, 2)}

UnitVectorsOf ==
    [d \in 0..n_features |->
       {u \in [1..d -> Comps] :
          FSum([i \in 1..d |-> FMul(u[i], u[i])], d) = One}]

UnitVectors(d) == UnitVectorsOf[d]

\* (C u)[i] for the d x d rows C
MatVec(C, u, d) ==
    Tup([i \in 1..d |-> FSum([j \in 1..d |-> FMul(C[i][j], u[j])], d)])

\* u . v
Dot1(u, v, d) == FSum([i \in 1..d |-> FMul(u[i], v[i])], d)

IsEigvec(C, u, d) ==
    LET cu  == MatVec(C, u, d)
        lam == Dot1(u, cu, d)
    IN  \A i \in 1..d : cu[i] = FMul(lam, u[i])

RECURSIVE Det(_, _)
Det(M, d) ==
    IF d = 0 THEN One
    ELSE FSum([j \in 1..d |->
                 FMul(IF j % 2 = 1 THEN M[1][j] ELSE FNeg(M[1][j]),
                      Det([r \in 1..(d - 1) |-> [c \in 1..(d - 1) |->
                             M[r + 1][IF c < j THEN c ELSE c + 1]]], d - 1))],
              d)

\* np.linalg.eig raises LinAlgError: fewer than two dimensions, not square,
\* or an inf/nan entry
EigRaises(A) ==
    \/ Ndim(A) < 2
    \/ A.shape[1] # A.shape[2]
    \/ \E x \in Elems(A) : ~IsFinite(x)

\* the representable unit eigenvectors of a finite square A
Eigvecs(A) == {u \in UnitVectors(A.shape[1]) : IsEigvec(A.a, u, A.shape[1])}

\* variant: inside a repeated eigenvalue's eigenspace the routine returns
\* any linearly independent unit vectors, orthogonal or not
EigBasesOblique(A) ==
    LET d == A.shape[1]
    IN  {f \in [1..d -> Eigvecs(A)] : Det(f, d) # Zero}

\* the column tuples np.linalg.eig may return for a finite square A: unit
\* eigenvectors, linearly independent, and orthogonal to each other inside
\* a repeated eigenvalue's eigenspace (they are the Schur vectors there)
EigBases(A) ==
    LET d == A.shape[1]
        lam(u) == Dot1(u, MatVec(A.a, u, d), d)
    IN  {f \in [1..d -> Eigvecs(A)] :
           /\ Det(f, d) # Zero
           /\ \A i, j \in 1..d :
                  (i < j /\ lam(f[i]) = lam(f[j])) => Dot1(f[i], f[j], d) = Zero}

\* the results <<w, v>> np.linalg.eig may return for a finite square A
EigResults(A) ==
    LET d == A.shape[1]
    IN  {<<Arr1(d, [i \in 1..d |-> Dot1(cols[i], MatVec(A.a, cols[i], d), d)]),
           Arr2(d, d, [r \in 1..d |-> [c \in 1..d |-> cols[c][r]]])>> :
           cols \in EigBases(A)}

\* variant: an index order that makes w descending
ArgSortsDescending(w) ==
    LET d == w.shape[1]
    IN  {Arr1(d, p) : p \in {q \in [1..d -> 1..d] :
            /\ \A i, j \in 1..d : i # j => q[i] # q[j]
            /\ \A i, j \in 1..d : i < j => FLe(w.a[q[j]], w.a[q[i]])}}

\* np.argsort(w): an index order that makes w ascending (ties in any order)
ArgSorts(w) ==
    LET d == w.shape[1]
    IN  {Arr1(d, p) : p \in {q \in [1..d -> 1..d] :
            /\ \A i, j \in 1..d : i # j => q[i] # q[j]
            /\ \A i, j \in 1..d : i < j => FLe(w.a[q[i]], w.a[q[j]])}}

\* variant: the [::-1] is missing
ReversedMissing(v) == v

\* v[::-1]
Reversed(v) ==
    LET d == v.shape[1] IN Arr1(d, [i \in 1..d |-> v.a[d + 1 - i]])

\* variant: the eigenvalues are left in the order of the decomposition
TakeIdxUnpermuted(w, ix) == w

\* w[idx]
TakeIdx(w, ix) == Arr1(ix.shape[1], [i \in 1..ix.shape[1] |-> w.a[ix.a[i]]])

\* variant: the columns are left in the order of the decomposition
TakeColsUnpermuted(V, ix) == V

\* variant: V[idx], the rows taken in the sorted order instead of the
\* columns
TakeColsRows(V, ix) ==
    Arr2(ix.shape[1], V.shape[2],
         [r \in 1..ix.shape[1] |-> [c \in 1..V.shape[2] |-> V.a[ix.a[r]][c]]])

\* V[:, idx]
TakeCols(V, ix) ==
    Arr2(V.shape[1], ix.shape[1],
         [r \in 1..V.shape[1] |-> [c \in 1..ix.shape[1] |-> V.a[r][ix.a[c]]]])

\* variant: a lookup that never raises (as the slice V[:, :1] would not)
ColumnRaisesNever(V) == FALSE

\* V[:, 0] raises IndexError when V has no column
ColumnRaises(V) == V.shape[2] < 1

\* V[:, 0]
Column0(V) == Arr1(V.shape[1], [r \in 1..V.shape[1] |-> V.a[r][1]])

\* v.reshape(-1, 1)
AsColumn(v) == Arr2(v.shape[1], 1, [r \in 1..v.shape[1] |-> <<v.a[r]>>])

\* variant: the row holds the absolute values, np.abs(v).reshape(1, -1) (a
\* sign convention applied to the basis in this one place)
AsRowAbs(v) ==
    Arr2(1, v.shape[1],
         <<[i \in 1..v.shape[1] |->
              IF SgnSurd(v.a[i][1], v.a[i][2]) < 0 THEN FNeg(v.a[i])
              ELSE v.a[i]] \o <<>>>>)

\* v.reshape(1, -1)
AsRow(v) == Arr2(1, v.shape[1], <<v.a>>)

\* np.dot of two 2-d arrays raises ValueError unless the inner sizes agree
DotRaises(A, B) == A.shape[2] # B.shape[1]

NpDot(A, B) ==
    LET k == A.shape[2]
    IN  Arr2(A.shape[1], B.shape[2],
             [r \in 1..A.shape[1] |-> [c \in 1..B.shape[2] |->
                FSum([t \in 1..k |-> FMul(A.a[r][t], B.a[t][c])], k)]])

\* A + v, 2-d plus 1-d, by numpy broadcasting: the trailing sizes must be
\* equal or one of them 1, else ValueError
AddRaises(A, v) ==
    ~(A.shape[2] = v.shape[1] \/ A.shape[2] = 1 \/ v.shape[1] = 1)

AddRows(A, v) ==
    LET m  == A.shape[2]
        k  == v.shape[1]
        mk == IF m = 1 THEN k ELSE m
    IN  Arr2(A.shape[1], mk,
             [r \in 1..A.shape[1] |-> [c \in 1..mk |->
                FAdd(A.a[r][IF m = 1 THEN 1 ELSE c],
                     v.a[IF k = 1 THEN 1 ELSE c])]])

(***************************************************************************)
(* Inputs                                                                  *)
(***************************************************************************)
\* the points a sample row is drawn from; a matrix with d columns uses the
\* first d coordinates
Points ==
    <<<<0, 0>>, <<4, 0>>, <<0, 4>>, <<4, 4>>, <<6, 8>>, <<-1, 7>>, <<2, 1>>>>

\* n rows of Points, listed in the order of Points (no step of the
\* pipeline depends on the order of the rows)
RowChoices(n) ==
    {q \in [1..n -> 1..Len(Points)] : \A i, j \in 1..n : i < j => q[i] <= q[j]}

Matrices ==
    UNION {{Arr2(n, d, [r \in 1..n |-> [c \in 1..d |-> Flt(Points[q[r]][c])]]) :
               q \in RowChoices(n)} :
           n \in 0..MaxN, d \in 0..n_features}

\* the covariance matrix the pipeline computes for X (Steps 2 and 3)
CovOf(X) == NpCov(Transpose(SubRows(X, NpMean0(X))))

\* the sample matrices of the model: those whose eigenvectors, when the
\* pipeline gets as far as the decomposition, are exactly representable
Representable(C) ==
    \/ EigRaises(C)
    \/ LET ev == Eigvecs(C)
       IN  \E cols \in [1..C.shape[1] -> ev] : Det(cols, C.shape[1]) # Zero

\* four samples on the line y = x + 1
ColinearSamples ==
    Arr2(4, 2, [r \in 1..4 |-> <<Flt(2 * r - 1), Flt(2 * r)>>])

SampleMatrices ==
    {X \in Matrices \cup {ColinearSamples} : Representable(CovOf(X))}

\* no call yet / nothing recorded yet
NoCall == [arg |-> Unset, res |-> <<>>]

NoWriter == [mean |-> "none", pc1 |-> "none", projected |-> "none"]

NoSort == [eigenvalues |-> Unset, eigenvectors |-> Unset]

NoRun ==
    [mean |-> Unset, eigenvalues |-> Unset, eigenvectors |-> Unset,
     pc1 |-> Unset, projected |-> Unset, projected_2D |-> Unset]

NoPCA == [components_ |-> Unset, mean_ |-> Unset]

\* the state of the kernel before any cell has run
Fresh ==
    /\ mean = Unset
    /\ data_centered = Unset
    /\ cov_matrix = Unset
    /\ eigenvalues = Unset
    /\ eigenvectors = Unset
    /\ idx = Unset
    /\ projected_2D = Unset
    /\ pca = NoPCA
    /\ projected_back = Unset
    /\ err = "none"
    /\ eig_seen = NoCall
    /\ argsort_seen = NoCall
    /\ launched = "none"
    /\ writer = NoWriter
    /\ first_sorted = NoSort
    /\ first_run = NoRun
    /\ runs = 0

(***************************************************************************)
(* The pipeline, one action per numbered step of the notebook              *)
(***************************************************************************)
Init ==
    /\ data \in SampleMatrices
    /\ Fresh
    /\ pc1 = Unset
    /\ projected = Unset
    /\ pc = "step2"

\* variant: the mean is subtracted in place (data -= mean) and
\* data_centered is a second name for the same array
Step2InPlace ==
    /\ pc = "step2"
    /\ mean' = NpMean0(data)
    /\ data' = SubRows(data, mean')
    /\ data_centered' = data'
    /\ pc' = "step3"
    /\ writer' = [writer EXCEPT !.mean = "manual"]
    /\ UNCHANGED <<cov_matrix, eigenvalues, eigenvectors, idx, pc1,
                   projected, projected_2D, err>>
    /\ UNCHANGED <<pca, projected_back, eig_seen, argsort_seen, launched,
                   first_sorted, first_run, runs>>

\* Step 2: mean = np.mean(data, axis=0); data_centered = data - mean
Step2 ==
    /\ pc = "step2"
    /\ mean' = NpMean0(data)
    /\ data_centered' = SubRows(data, mean')
    /\ pc' = "step3"
    /\ writer' = [writer EXCEPT !.mean = "manual"]
    /\ UNCHANGED <<data, cov_matrix, eigenvalues, eigenvectors, idx, pc1,
                   projected, projected_2D, err>>
    /\ UNCHANGED <<pca, projected_back, eig_seen, argsort_seen, launched,
                   first_sorted, first_run, runs>>

\* Step 3: cov_matrix = np.cov(data_centered.T)
Step3 ==
    /\ pc = "step3"
    /\ cov_matrix' = NpCov(Transpose(data_centered))
    /\ pc' = "step4"
    /\ UNCHANGED <<data, mean, data_centered, eigenvalues, eigenvectors, idx,
                   pc1, projected, projected_2D, err>>
    /\ UNCHANGED <<pca, projected_back, eig_seen, argsort_seen, launched,
                   writer, first_sorted, first_run, runs>>

\* variant: every call of the decomposition draws its result afresh (a
\* solver with a random start vector)
Step4Fresh ==
    /\ pc = "step4"
    /\ IF EigRaises(cov_matrix)
       THEN /\ pc' = "error"
            /\ err' = "LinAlgError"
            /\ UNCHANGED <<eigenvalues, eigenvectors, eig_seen>>
       ELSE /\ \E r \in EigResults(cov_matrix) :
                 /\ eigenvalues' = r[1]
                 /\ eigenvectors' = r[2]
                 /\ eig_seen' = [arg |-> cov_matrix, res |-> r]
            /\ pc' = "step5"
            /\ err' = err
    /\ UNCHANGED <<data, mean, data_centered, cov_matrix, idx, pc1,
                   projected, projected_2D>>
    /\ UNCHANGED <<pca, projected_back, argsort_seen, launched, writer,
                   first_sorted, first_run, runs>>

\* variant: the decomposition is skipped when eigenvalues is bound already,
\* so that a second run of the cell sorts the sorted arrays again
Step4KeepsPrevious ==
    /\ pc = "step4"
    /\ IF IsSet(eigenvalues)
       THEN /\ pc' = "step5"
            /\ err' = err
            /\ UNCHANGED <<eigenvalues, eigenvectors, eig_seen>>
       ELSE IF EigRaises(cov_matrix)
       THEN /\ pc' = "error"
            /\ err' = "LinAlgError"
            /\ UNCHANGED <<eigenvalues, eigenvectors, eig_seen>>
       ELSE /\ \E r \in EigResults(cov_matrix) :
                 /\ eigenvalues' = r[1]
                 /\ eigenvectors' = r[2]
                 /\ eig_seen' = [arg |-> cov_matrix, res |-> r]
            /\ pc' = "step5"
            /\ err' = err
    /\ UNCHANGED <<data, mean, data_centered, cov_matrix, idx, pc1,
                   projected, projected_2D>>
    /\ UNCHANGED <<pca, projected_back, argsort_seen, launched, writer,
                   first_sorted, first_run, runs>>

\* Step 4: eigenvalues, eigenvectors = np.linalg.eig(cov_matrix)
Step4 ==
    /\ pc = "step4"
    /\ IF EigRaises(cov_matrix)
       THEN /\ pc' = "error"
            /\ err' = "LinAlgError"
            /\ UNCHANGED <<eigenvalues, eigenvectors, eig_seen>>
       ELSE /\ \E r \in (IF ArrEq(eig_seen.arg, cov_matrix)
                         THEN {eig_seen.res}
                         ELSE EigResults(cov_matrix)) :
                 /\ eigenvalues' = r[1]
                 /\ eigenvectors' = r[2]
                 /\ eig_seen' = [arg |-> cov_matrix, res |-> r]
            /\ pc' = "step5"
            /\ err' = err
    /\ UNCHANGED <<data, mean, data_centered, cov_matrix, idx, pc1,
                   projected, projected_2D>>
    /\ UNCHANGED <<pca, projected_back, argsort_seen, launched, writer,
                   first_sorted, first_run, runs>>

\* Step 5: idx = np.argsort(eigenvalues)[::-1];
\*         eigenvalues = eigenvalues[idx]; eigenvectors = eigenvectors[:, idx]
Step5 ==
    /\ pc = "step5"
    /\ \E s \in (IF ArrEq(argsort_seen.arg, eigenvalues)
                  THEN {argsort_seen.res}
                  ELSE ArgSorts(eigenvalues)) :
          /\ idx' = Reversed(s)
          /\ argsort_seen' = [arg |-> eigenvalues, res |-> s]
    /\ eigenvalues' = TakeIdx(eigenvalues, idx')
    /\ eigenvectors' = TakeCols(eigenvectors, idx')
    /\ first_sorted' =
          IF IsSet(first_sorted.eigenvalues) THEN first_sorted
          ELSE [eigenvalues |-> eigenvalues', eigenvectors |-> eigenvectors']
    /\ pc' = "step6"
    /\ UNCHANGED <<data, mean, data_centered, cov_matrix, pc1, projected,
                   projected_2D, err>>
    /\ UNCHANGED <<pca, projected_back, eig_seen, launched, writer, first_run,
                   runs>>

\* Step 6: pc1 = eigenvectors[:, 0];
\*         projected = np.dot(data_centered, pc1.reshape(-1, 1))
Step6 ==
    /\ pc = "step6"
    /\ IF ColumnRaises(eigenvectors)
       THEN /\ pc' = "error"
            /\ err' = "IndexError"
            /\ UNCHANGED <<pc1, projected, writer>>
       ELSE /\ pc1' = Column0(eigenvectors)
            /\ IF DotRaises(data_centered, AsColumn(pc1'))
               THEN /\ pc' = "error"
                    /\ err' = "ValueError"
                    /\ writer' = [writer EXCEPT !.pc1 = "manual"]
                    /\ UNCHANGED projected
               ELSE /\ projected' = NpDot(data_centered, AsColumn(pc1'))
                    /\ writer' = [writer EXCEPT !.pc1 = "manual",
                                                !.projected = "manual"]
                    /\ pc' = "step7"
                    /\ err' = err
    /\ UNCHANGED <<data, mean, data_centered, cov_matrix, eigenvalues,
                   eigenvectors, idx, projected_2D>>
    /\ UNCHANGED <<pca, projected_back, eig_seen, argsort_seen, launched,
                   first_sorted, first_run, runs>>

\* Step 7: projected_2D = np.dot(projected, pc1.reshape(1, -1)) + mean
Step7 ==
    /\ pc = "step7"
    /\ IF DotRaises(projected, AsRow(pc1))
       THEN /\ pc' = "error"
            /\ err' = "ValueError"
            /\ UNCHANGED <<projected_2D, first_run, runs>>
       ELSE IF AddRaises(NpDot(projected, AsRow(pc1)), mean)
       THEN /\ pc' = "error"
            /\ err' = "ValueError"
            /\ UNCHANGED <<projected_2D, first_run, runs>>
       ELSE /\ projected_2D' = AddRows(NpDot(projected, AsRow(pc1)), mean)
            /\ first_run' =
                  IF IsSet(first_run.projected_2D) THEN first_run
                  ELSE [mean |-> mean, eigenvalues |-> eigenvalues,
                        eigenvectors |-> eigenvectors, pc1 |-> pc1,
                        projected |-> projected, projected_2D |-> projected_2D']
            /\ runs' = IF runs < MaxRuns THEN runs + 1 ELSE runs
            /\ pc' = "done"
            /\ err' = err
    /\ UNCHANGED <<data, mean, data_centered, cov_matrix, eigenvalues,
                   eigenvectors, idx, pc1, projected>>
    /\ UNCHANGED <<pca, projected_back, eig_seen, argsort_seen, launched,
                   writer, first_sorted>>

Next == Step2 \/ Step3 \/ Step4 \/ Step5 \/ Step6 \/ Step7

Spec == Init /\ [][Next]_vars

(***************************************************************************)
(* Cells run again.  The kernel keeps every name between cells, and any    *)
(* code cell of the manual pipeline can be run whenever the kernel is      *)
(* idle: the cell of Steps 1-2, of Step 3, of Steps 4-5 and of Steps 6-7.  *)
(***************************************************************************)
\* the first numbered step of each code cell
Cells == {"step2", "step3", "step4", "step6"}

\* the kernel is between two cells
Idle == {"step3", "step4", "step6", "done", "error"}

\* the names the first statement of cell c reads are bound
Bound(c) ==
    IF c = "step2" THEN IsSet(data)
    ELSE IF c = "step3" THEN IsSet(data_centered)
    ELSE IF c = "step4" THEN IsSet(cov_matrix)
    ELSE IsSet(eigenvectors) /\ IsSet(data_centered)

\* cell c is run: its statements follow, or its first statement raises
\* NameError on a name no cell has bound
Run(c) ==
    /\ pc \in Idle
    /\ launched' = c
    /\ IF Bound(c)
       THEN pc' = c /\ err' = err
       ELSE pc' = "error" /\ err' = "NameError"
    /\ UNCHANGED <<data, mean, data_centered, cov_matrix, eigenvalues,
                   eigenvectors, idx, pc1, projected, projected_2D>>
    /\ UNCHANGED <<pca, projected_back, eig_seen, argsort_seen, writer,
                   first_sorted, first_run, runs>>

NextRerun ==
    \/ \E c \in Cells : Run(c)
    \/ Step2 \/ Step3 \/ Step4 \/ Step5 \/ Step6 \/ Step7

\* the sample matrices the cells are run again on: up to MaxN consecutive
\* rows of Points
Windows ==
    {X \in SampleMatrices :
        \E i \in 1..Len(Points) :
            \A r \in 1..X.shape[1], c \in 1..X.shape[2] :
                /\ i + r - 1 <= Len(Points)
                /\ X.a[r][c] = Flt(Points[i + r - 1][c])}

InitRerun ==
    /\ data \in Windows
    /\ Fresh
    /\ pc1 = Unset
    /\ projected = Unset
    /\ pc = "step2"

SpecRerun == InitRerun /\ [][NextRerun]_vars

(***************************************************************************)
(* The scikit-learn cell beside the manual pipeline.  It is one cell, run  *)
(* while the kernel is idle, and binds data, projected, pc1 and mean, the  *)
(* names of the manual pipeline, in the same kernel.                       *)
(***************************************************************************)
\* the unit vectors PCA(n_components=1).fit may return as components_[0]:
\* a direction of largest variance, its sign being the library's own
TopVectors(C) ==
    LET d == C.shape[1]
        lam(u) == Dot1(u, MatVec(C.a, u, d), d)
    IN  {u \in Eigvecs(C) : \A v \in Eigvecs(C) : FLe(lam(v), lam(u))}

\* data = np.hstack((x, y)) (the same seeded samples);
\* pca = PCA(n_components=1); projected = pca.fit_transform(data);
\* projected_back = pca.inverse_transform(projected);
\* pc1 = pca.components_[0]; mean = pca.mean_
SklearnCell ==
    /\ pc \in Idle
    /\ LET mu == NpMean0(data)
           d  == data.shape[2]
       IN  \E u \in (IF IsSet(pca.components_)
                     THEN {pca.components_.a[1]}
                     ELSE TopVectors(CovOf(data))) :
               LET components == Arr2(n_components, d, <<u>>)
               IN  /\ pca' = [components_ |-> components, mean_ |-> mu]
                   /\ projected' =
                         NpDot(SubRows(data, mu), Transpose(components))
                   /\ projected_back' =
                         AddRows(NpDot(projected', components), mu)
                   /\ pc1' = Arr1(d, u)
                   /\ mean' = mu
    /\ writer' = [mean |-> "sklearn", pc1 |-> "sklearn", projected |-> "sklearn"]
    /\ UNCHANGED <<data, data_centered, cov_matrix, eigenvalues, eigenvectors,
                   idx, projected_2D, pc, err>>
    /\ UNCHANGED <<eig_seen, argsort_seen, launched, first_sorted, first_run,
                   runs>>

\* the notebook's samples: at least two rows of two features
InitNotebook ==
    /\ data \in {X \in Windows : X.shape[1] >= 2 /\ X.shape[2] = n_features}
    /\ Fresh
    /\ pc1 = Unset
    /\ projected = Unset
    /\ pc = "step2"

NextNotebook ==
    Step2 \/ Step3 \/ Step4 \/ Step5 \/ Step6 \/ Step7 \/ SklearnCell

SpecNotebook == InitNotebook /\ [][NextNotebook]_vars

(***************************************************************************)
(* Step 7 on its own ("inverse_transform"): projected, pc1 and mean of     *)
(* arbitrary small shapes, then the statement of Step 7                    *)
(***************************************************************************)
\* largest size of any axis of the arrays handed to Step 7 (each axis has
\* 1..MaxAxis entries)
MaxAxis == 2

AxisVals == {Flt(0), Flt(1)}

Vectors == UNION {{Arr1(m, f) : f \in [1..m -> AxisVals]} : m \in 1..MaxAxis}

Tables ==
    UNION {{Arr2(n, k, f) : f \in [1..n -> [1..k -> AxisVals]]} :
           n \in 1..MaxAxis, k \in 1..MaxAxis}

InitInverse ==
    /\ projected \in Tables
    /\ pc1 \in Vectors
    /\ mean \in Vectors
    /\ data = Unset
    /\ data_centered = Unset
    /\ cov_matrix = Unset
    /\ eigenvalues = Unset
    /\ eigenvectors = Unset
    /\ idx = Unset
    /\ projected_2D = Unset
    /\ pca = NoPCA
    /\ projected_back = Unset
    /\ pc = "step7"
    /\ err = "none"
    /\ eig_seen = NoCall
    /\ argsort_seen = NoCall
    /\ launched = "none"
    /\ writer = NoWriter
    /\ first_sorted = NoSort
    /\ first_run = NoRun
    /\ runs = 0

NextInverse == Step7

SpecInverse == InitInverse /\ [][NextInverse]_vars

(***************************************************************************)
(* Vocabulary of the properties                                            *)
(***************************************************************************)
NRows == data.shape[1]

NCols == data.shape[2]

\* a valid sample matrix: n >= 2 observations of d >= 1 features
ValidSamples == NRows >= 2 /\ NCols >= 1

Finished == pc \in {"done", "error"}

\* the numpy exceptions that signal a shape or index violation
DimensionErrors == {"IndexError", "ValueError"}

\* column c of the 2-d array A, as a tuple
ColOf(A, c) == Tup([r \in 1..A.shape[1] |-> A.a[r][c]])

\* the elements of A in row-major order (A.flat)
Flat(A) ==
    IF Ndim(A) = 0 THEN <<A.a>>
    ELSE Tup([t \in 1..(A.shape[1] * A.shape[2]) |->
                A.a[((t - 1) \div A.shape[2]) + 1][((t - 1) % A.shape[2]) + 1]])

\* unbiased (n - 1) variance of the n numbers p
Var1(p, n) ==
    LET m == FDiv(FSum(p, n), Flt(n))
    IN  FDiv(FSum([r \in 1..n |-> FMul(FSub(p[r], m), FSub(p[r], m))], n),
             Flt(n - 1))

\* sum of squared differences between two 2-d arrays of one shape
SqErr(A, B) ==
    FSum([r \in 1..A.shape[1] |->
            FSum([c \in 1..A.shape[2] |->
                    LET diff == FSub(A.a[r][c], B.a[r][c]) IN FMul(diff, diff)],
                 A.shape[2])],
         A.shape[1])

\* the reconstruction of the centered data through the unit vector u
ReconstructionAlong(u) ==
    LET v == Arr1(NCols, u)
    IN  AddRows(NpDot(NpDot(data_centered, AsColumn(v)), AsRow(v)), mean)

(***************************************************************************)
(* Properties                                                              *)
(***************************************************************************)
\* C1: round-trip law.  For every valid sample matrix, when the number of
\* retained components equals the number of features, the pipeline runs to
\* its end and the reconstruction (projected x pc1-transpose + mean) equals
\* the sample matrix entry by entry.
RoundTripLaw ==
    (Finished /\ ValidSamples /\ n_components = NCols) =>
        (pc = "done" /\ ArrEq(projected_2D, data))

InsufficientSamplesRejected ==
    (NRows < 2 /\ NCols >= 1) =>
        /\ ~IsSet(cov_matrix)
        /\ ~IsSet(eigenvalues)
        /\ ~IsSet(eigenvectors)
        /\ ~IsSet(projected)
        /\ Finished => err = "InsufficientSamplesError"

\* C4: Step 7 ends in a shape error whenever the projection does not have
\* the basis' single column or the basis' row count differs from the length
\* of the mean; otherwise it ends without error in an n x d array.
InverseShapesEnforced ==
    Finished =>
        IF projected.shape[2] # 1 \/ pc1.shape[1] # mean.shape[1]
        THEN pc = "error" /\ err \in DimensionErrors
        ELSE /\ pc = "done"
             /\ err = "none"
             /\ projected_2D.shape = <<projected.shape[1], pc1.shape[1]>>

\* C5: for every valid sample matrix, every column of the centered matrix
\* has mean zero.
CenteredMeanZero ==
    (IsSet(data_centered) /\ ValidSamples) =>
        \A c \in 1..NCols :
            FDiv(FSum(ColOf(data_centered, c), NRows), Flt(NRows)) = Zero

\* C5 witness: a valid matrix with a non-zero column mean has been centered
CenteredWitness ==
    /\ pc = "step3"
    /\ ValidSamples
    /\ \E c \in 1..NCols : mean.a[c] # Zero
    /\ \E r \in 1..NRows, c \in 1..NCols : data_centered.a[r][c] # Zero

\* C6: for every valid sample matrix the covariance matrix is symmetric:
\* cov[i][j] = cov[j][i] for all feature indices i, j.
CovSymmetric ==
    (IsSet(cov_matrix) /\ ValidSamples) =>
        /\ ArrEq(Transpose(cov_matrix), cov_matrix)
        /\ Ndim(cov_matrix) = 2 =>
               \A i, j \in 1..NCols : cov_matrix.a[i][j] = cov_matrix.a[j][i]

\* C6 witness: a covariance matrix with a non-zero off-diagonal entry and
\* two different variances
CovSymmetricWitness ==
    /\ pc = "step4"
    /\ ValidSamples
    /\ Ndim(cov_matrix) = 2
    /\ cov_matrix.a[1][2] # Zero
    /\ cov_matrix.a[1][1] # cov_matrix.a[2][2]

\* C7: the covariance matrix has one entry per pair of features (d * d of
\* them, not n * n), and entry (i, j) is the sum over the n rows of
\* centered[r][i] * centered[r][j], divided by n - 1.
CovUnbiasedByFeature ==
    (IsSet(cov_matrix) /\ ValidSamples) =>
        /\ Len(Flat(cov_matrix)) = NCols * NCols
        /\ \A i, j \in 1..NCols :
              Flat(cov_matrix)[(i - 1) * NCols + j] =
                  FDiv(FSum([r \in 1..NRows |->
                               FMul(data_centered.a[r][i], data_centered.a[r][j])],
                            NRows),
                       Flt(NRows - 1))

\* C7 witness: more rows than features and a non-zero covariance, so that
\* d x d differs from n x n and n - 1 from n
CovUnbiasedWitness ==
    /\ pc = "step4"
    /\ NRows > NCols
    /\ NCols >= 2
    /\ Ndim(cov_matrix) = 2
    /\ cov_matrix.a[1][2] # Zero

\* C8: after the sort step the eigenvalues are in non-increasing order.
EigenvaluesSorted ==
    pc \in {"step6", "step7", "done"} =>
        \A i, j \in 1..eigenvalues.shape[1] :
            i < j => FLe(eigenvalues.a[j], eigenvalues.a[i])

\* C8 witness: the decomposition returned the eigenvalues in ascending
\* order and the sort step swapped them
EigenvaluesSortedWitness ==
    /\ pc = "step6"
    /\ eigenvalues.shape[1] >= 2
    /\ idx.a[1] > idx.a[2]
    /\ eigenvalues.a[1] # eigenvalues.a[2]

\* C9: for every retained axis i, the unbiased variance of column i of the
\* projection equals the i-th sorted eigenvalue.
ProjectionVariance ==
    pc \in {"step7", "done"} =>
        \A i \in 1..n_components :
            Var1(ColOf(projected, i), NRows) = eigenvalues.a[i]

\* C9 witness: a projection onto a principal axis that is not a coordinate
\* axis, with two different non-zero eigenvalues
ProjectionVarianceWitness ==
    /\ pc = "done"
    /\ cov_matrix.a[1][2] # Zero
    /\ eigenvalues.a[1] # eigenvalues.a[2]
    /\ eigenvalues.a[2] # Zero

\* C10: when fewer components than features are retained, the squared
\* error of the reconstruction is no larger than the squared error of the
\* reconstruction through any other unit vector.
ReconstructionOptimal ==
    (pc = "done" /\ n_components < NCols) =>
        LET achieved == SqErr(data, projected_2D)
        IN  \A u \in UnitVectors(NCols) :
                FLe(achieved, SqErr(data, ReconstructionAlong(u)))

\* C10 witness: a lossy reconstruction that some other unit vector does
\* strictly worse than
ReconstructionOptimalWitness ==
    /\ pc = "done"
    /\ n_components < NCols
    /\ SqErr(data, projected_2D) # Zero
    /\ LET achieved == SqErr(data, projected_2D)
       IN  \E u \in UnitVectors(NCols) :
               ~FLe(SqErr(data, ReconstructionAlong(u)), achieved)

\* C11: for the samples [[1,2],[3,4],[5,6],[7,8]], after centering,
\* covariance, decomposition and sort, the first eigenvalue equals the total
\* variance (the sum of the two column variances, which is the trace of the
\* covariance matrix) and the second eigenvalue is zero.
ColinearVariance ==
    (ArrEq(data, ColinearSamples) /\ pc \in {"step6", "step7", "done"}) =>
        /\ eigenvalues.a[1] =
               FAdd(Var1(ColOf(data, 1), NRows), Var1(ColOf(data, 2), NRows))
        /\ eigenvalues.a[1] = FAdd(cov_matrix.a[1][1], cov_matrix.a[2][2])
        /\ eigenvalues.a[2] = Zero

\* C11 witness: the four colinear samples were decomposed with the zero
\* eigenvalue first, and sorted; the variance 40/3 lies along the diagonal
ColinearVarianceWitness ==
    /\ ArrEq(data, ColinearSamples)
    /\ pc = "step6"
    /\ idx.a[1] = 2
    /\ eigenvalues.a[1] = Norm(40, 3)
    /\ eigenvectors.a[1][1] = Surd(0, 1, 2)
    /\ eigenvectors.a[2][1] = Surd(0, 1, 2)

RunsDeterministic ==
    IsSet(first_run.projected_2D) =>
        /\ ArrEq(mean, first_run.mean)
        /\ ArrEq(pc1, first_run.pc1)
        /\ ArrEq(projected, first_run.projected)
        /\ pc # "step5" =>
               /\ ArrEq(eigenvalues, first_run.eigenvalues)
               /\ ArrEq(eigenvectors, first_run.eigenvectors)

\* C13 witness: after one complete run the first cell was run again and the
\* pipeline reached its end a second time, on data with a non-zero
\* projection
RunsDeterministicWitness ==
    /\ pc = "done"
    /\ runs = 2
    /\ launched = "step2"
    /\ \E r \in 1..NRows : projected.a[r][1] # Zero

\* C15: no step changes the sample matrix, and no step changes the centered
\* matrix once it is bound.
SamplesNeverModified ==
    [][/\ data' = data
       /\ IsSet(data_centered) => data_centered' = data_centered]_vars

\* C15 witness: every step has run, the centering cell more than once, on
\* samples whose centered matrix differs from the samples
SamplesNeverModifiedWitness ==
    /\ pc = "done"
    /\ launched = "step2"
    /\ runs = 2
    /\ ~ArrEq(data_centered, data)

\* C18: once the decomposition-and-sort cell has run, every later run of
\* it, in any order with the other cells, leaves eigenvalues and
\* eigenvectors as its first run left them.
SortCellIdempotent ==
    (pc # "step5" /\ IsSet(first_sorted.eigenvalues)) =>
        /\ ArrEq(eigenvalues, first_sorted.eigenvalues)
        /\ ArrEq(eigenvectors, first_sorted.eigenvectors)

\* C18 witness: the cell was run again after the projection cell, on data
\* with two equal eigenvalues whose first sort swapped the columns
SortCellIdempotentWitness ==
    /\ pc = "step6"
    /\ launched = "step4"
    /\ IsSet(projected_2D)
    /\ eigenvalues.a[1] = eigenvalues.a[2]
    /\ idx.a[1] = 2

\* C14: the manual pipeline and the scikit-learn cell do not affect each
\* other: Step 7 reads no name the other pipeline bound last, and once the
\* manual pipeline has ended its projection and its reconstruction are the
\* ones it computes alone from its own centered matrix and basis.
CallsIndependent ==
    /\ pc = "step7" =>
           /\ writer.mean = "manual"
           /\ writer.pc1 = "manual"
           /\ writer.projected = "manual"
    /\ pc = "done" =>
           /\ ArrEq(projected,
                    NpDot(data_centered, AsColumn(Column0(eigenvectors))))
           /\ ArrEq(projected_2D, ReconstructionAlong(ColOf(eigenvectors, 1)))

\* C16: the sort applies one permutation to the eigenvalues and to the
\* columns of the eigenvectors: after the sort cov_matrix x column i equals
\* eigenvalue i x column i for every i, and the sorted pairs are the pairs
\* the decomposition returned, reordered by the permutation idx (none lost,
\* none twice), also when eigenvalues tie.
SortKeepsPairs ==
    pc \in {"step6", "step7", "done"} =>
        LET d == eigenvalues.shape[1]
            w == eig_seen.res[1]
            v == eig_seen.res[2]
        IN  /\ \A i \in 1..d :
                   MatVec(cov_matrix.a, ColOf(eigenvectors, i), d) =
                       Tup([r \in 1..d |->
                              FMul(eigenvalues.a[i], eigenvectors.a[r][i])])
            /\ {idx.a[i] : i \in 1..d} = 1..d
            /\ \A i \in 1..d :
                   /\ eigenvalues.a[i] = w.a[idx.a[i]]
                   /\ ColOf(eigenvectors, i) = ColOf(v, idx.a[i])

\* C16 witness: two equal eigenvalues whose columns the sort has swapped,
\* and whose vectors are not the coordinate axes
SortKeepsPairsWitness ==
    /\ pc = "step6"
    /\ eigenvalues.shape[1] = 2
    /\ eigenvalues.a[1] = eigenvalues.a[2]
    /\ idx.a[1] = 2
    /\ eigenvectors.a[1][1] = Norm(3, 5)

\* C17: the sign of the principal vector does not affect the
\* reconstruction: with -pc1 in place of pc1 Steps 6 and 7 give the
\* reconstruction they gave with pc1, while the projection changes sign.
SignIrrelevant ==
    pc = "done" =>
        LET minus == Arr1(pc1.shape[1], [i \in 1..pc1.shape[1] |-> FNeg(pc1.a[i])])
            flipped == NpDot(data_centered, AsColumn(minus))
        IN  /\ ArrEq(AddRows(NpDot(flipped, AsRow(minus)), mean), projected_2D)
            /\ \A r \in 1..NRows : flipped.a[r][1] = FNeg(projected.a[r][1])

\* C17 witness: a run whose projection is not zero, so that the flipped
\* projection is a different array, along a vector with a negative
\* component
SignIrrelevantWitness ==
    /\ pc = "done"
    /\ \E r \in 1..NRows : projected.a[r][1] # Zero
    /\ \E i \in 1..pc1.shape[1] : SgnSurd(pc1.a[i][1], pc1.a[i][2]) < 0
    /\ \E i \in 1..pc1.shape[1] : SgnSurd(pc1.a[i][1], pc1.a[i][2]) > 0


=============================================================================
